---- MODULE Spec2Model ----
(***************************************************************************)
(* Model of the "Suivi des Marees" dashboard (src/src/pages/dashboard.tsx) *)
(* and of its FileUploader component (src/unnamed/part_001).               *)
(*                                                                         *)
(* Strings are sequences of one-character strings, so that split, trim,    *)
(* parseInt, toLowerCase and includes are computed character by character. *)
(***************************************************************************)
EXTENDS Integers, Sequences, FiniteSets, TLC

VARIABLES
    proprietairesData,      \* useState<Proprietaire[]>        dashboard.tsx:52
    historiqueData,         \* useState<Historique[]>          dashboard.tsx:53
    mergedData,             \* useState<MergedData[]>          dashboard.tsx:54
    selectedProprietaire,   \* useState<string>("all")         dashboard.tsx:56
    barqueFilter,           \* useState<string>("")            dashboard.tsx:57
    startDate,              \* useState<string>("")            dashboard.tsx:58
    endDate,                \* useState<string>("")            dashboard.tsx:59
    currentPage,            \* useState(1)                     dashboard.tsx:61
    fileName,               \* FileUploader's fileName, one per uploader instance
    parsing,                \* parses / reads started and not yet completed, per uploader
    toasts,                 \* the notice toast() was called with in the last step
    clipboard,              \* the text clipboard.writeText was called with in the last step
    mergeRan,               \* whether the merge effect's body ran in the last step
    tz                      \* the browser's time zone: minutes east of UTC

vars == <<proprietairesData, historiqueData, mergedData, selectedProprietaire,
          barqueFilter, startDate, endDate, currentPage, fileName, parsing,
          toasts, clipboard, mergeRan, tz>>

(***************************************************************************)
(* Bounds of the model.                                                    *)
(***************************************************************************)
\* parses of one source that may be in flight together
MaxInFlight == 2
\* number of lines of the longest history file
MaxLines == 11

(***************************************************************************)
(* JavaScript values.                                                      *)
(***************************************************************************)
\* undefined and null are kept apart from every string: a string is a sequence
\* of one-character strings.
Undefined == <<"undefined">>
Null == "null"

\* JavaScript truthiness of a string or undefined.
Truthy(v) == v # Undefined /\ v # <<>>

\* NaN is a number that is not an integer.
NaN == [nan |-> TRUE, val |-> 0]
Num(n) == [nan |-> FALSE, val |-> n]

\* n || 0 for a number n: NaN and 0 are falsy.
OrZero(n) == IF n.nan \/ n.val = 0 THEN 0 ELSE n.val

Min(a, b) == IF a <= b THEN a ELSE b
Max(a, b) == IF a >= b THEN a ELSE b

(***************************************************************************)
(* String.prototype functions.                                             *)
(***************************************************************************)
WhiteSpace == {" ", "\t", "\n", "\r"}

RECURSIVE TrimStart(_)
TrimStart(s) ==
    IF s # <<>> /\ Head(s) \in WhiteSpace THEN TrimStart(Tail(s)) ELSE s

RECURSIVE TrimEnd(_)
TrimEnd(s) ==
    IF s # <<>> /\ s[Len(s)] \in WhiteSpace
    THEN TrimEnd(SubSeq(s, 1, Len(s) - 1))
    ELSE s

\* s.trim()
Trim(s) == TrimEnd(TrimStart(s))

\* s.split(sep) for a one-character separator: the pieces between
\* consecutive separators, always at least one piece.
Split(s, sep) ==
    LET seps == {i \in DOMAIN s : s[i] = sep}
        \* position of the k-th separator; 0 before the first piece and
        \* Len(s) + 1 after the last one
        SepAt(k) == IF k = 0 THEN 0
                    ELSE IF k > Cardinality(seps) THEN Len(s) + 1
                    ELSE CHOOSE i \in seps : Cardinality({j \in seps : j < i}) = k - 1
    IN  [k \in 1..(Cardinality(seps) + 1) |-> SubSeq(s, SepAt(k - 1) + 1, SepAt(k) - 1)]

\* array[i] with a zero-based index: undefined past the end.
At(arr, i) == IF i + 1 \in DOMAIN arr THEN arr[i + 1] ELSE Undefined

Digits == {"0", "1", "2", "3", "4", "5", "6", "7", "8", "9"}

DigitValue(c) ==
    CASE c = "0" -> 0 [] c = "1" -> 1 [] c = "2" -> 2 [] c = "3" -> 3
      [] c = "4" -> 4 [] c = "5" -> 5 [] c = "6" -> 6 [] c = "7" -> 7
      [] c = "8" -> 8 [] c = "9" -> 9

\* The longest prefix of s made of digits, read in base ten; acc is the value
\* read so far and any says whether a digit was read.
RECURSIVE ReadDigits(_, _, _)
ReadDigits(s, acc, any) ==
    IF s # <<>> /\ Head(s) \in Digits
    THEN ReadDigits(Tail(s), acc * 10 + DigitValue(Head(s)), TRUE)
    ELSE IF any THEN Num(acc) ELSE NaN

\* parseInt(s, 10): undefined is read as the string "undefined"; leading
\* white space and a sign are skipped; NaN when no digit follows.
ParseInt(s) ==
    IF s = Undefined THEN NaN
    ELSE LET t == TrimStart(s) IN
         IF t # <<>> /\ Head(t) = "-"
         THEN LET n == ReadDigits(Tail(t), 0, FALSE) IN
              IF n.nan THEN NaN ELSE Num(0 - n.val)
         ELSE IF t # <<>> /\ Head(t) = "+"
         THEN ReadDigits(Tail(t), 0, FALSE)
         ELSE ReadDigits(t, 0, FALSE)

LowerOf(c) ==
    CASE c = "A" -> "a" [] c = "B" -> "b" [] c = "C" -> "c" [] c = "D" -> "d"
      [] c = "E" -> "e" [] c = "F" -> "f" [] c = "G" -> "g" [] c = "H" -> "h"
      [] c = "I" -> "i" [] c = "J" -> "j" [] c = "K" -> "k" [] c = "L" -> "l"
      [] c = "M" -> "m" [] c = "N" -> "n" [] c = "O" -> "o" [] c = "P" -> "p"
      [] c = "Q" -> "q" [] c = "R" -> "r" [] c = "S" -> "s" [] c = "T" -> "t"
      [] c = "U" -> "u" [] c = "V" -> "v" [] c = "W" -> "w" [] c = "X" -> "x"
      [] c = "Y" -> "y" [] c = "Z" -> "z" [] OTHER -> c

\* s.toLowerCase()
ToLowerCase(s) == [i \in DOMAIN s |-> LowerOf(s[i])]

\* s.includes(sub)
Includes(s, sub) ==
    \E i \in 0..(Len(s) - Len(sub)) : SubSeq(s, i + 1, i + Len(sub)) = sub

\* lines.join("\n"): the text of a file made of the given lines.
RECURSIVE JoinLines(_)
JoinLines(lines) ==
    IF lines = <<>> THEN <<>>
    ELSE IF Len(lines) = 1 THEN lines[1]
    ELSE lines[1] \o <<"\n">> \o JoinLines(Tail(lines))

(***************************************************************************)
(* The files the user may select.                                          *)
(***************************************************************************)
Inconnu == <<"I", "n", "c", "o", "n", "n", "u">>
All == <<"a", "l", "l">>

\* Rows of owner files as Papa.parse({header: true}) delivers them: one
\* mapping from column name to string per row; a column missing from the
\* file is missing from the row.
OwnerA1 == [Matricule |-> <<"a", "1">>, Barque |-> <<"A", "b">>, Proprietaire |-> <<"X">>]
OwnerB2 == [Matricule |-> <<"b", "2">>, Barque |-> <<>>, Proprietaire |-> <<"Y">>]
OwnerA1bis == [Matricule |-> <<"a", "1">>, Barque |-> <<"B", "a">>, Proprietaire |-> <<"Y">>]
\* a short row: an empty boat name and no owner column
OwnerUpper == [Matricule |-> <<"A", "1">>, Barque |-> <<>>]
OwnerUpperBis == [Matricule |-> <<"A", "1">>, Barque |-> <<"C", "b">>, Proprietaire |-> <<"X">>]

OwnerFiles ==
    { [name |-> "proprietaires.csv", rows |-> <<OwnerA1, OwnerB2>>],
      [name |-> "doublons.csv", rows |-> <<OwnerA1bis, OwnerA1, OwnerUpper, OwnerUpperBis>>],
      [name |-> "vide.csv", rows |-> <<>>] }

\* Lines of history files.
LineJan == <<"a", "1", ";", "0", "1", "/", "0", "1", "/", "2", "0", "2", "4">>
LineMar == <<"a", "1", ";", "1", "5", "/", "0", "3", "/", "2", "0", "2", "4">>
LineDec == <<" ", "b", "2", " ", ";", " ", "3", "1", "/", "1", "2", "/", "2", "0", "2", "3", "\r">>
LineUpper == <<"A", "1", ";", "0", "2", "/", "0", "2", "/", "2", "0", "2", "4">>
LineNoOwner == <<"z", "9", ";", "0", "2", "/", "0", "2", "/", "2", "0", "2", "4">>
LineNoDate == <<"b", "2">>
LineBlank == <<" ", "\r">>

LongPattern == <<LineJan, LineMar, LineDec>>

\* A file of n lines that repeats LongPattern.
LongLines(n) == [i \in 1..n |-> LongPattern[((i - 1) % Len(LongPattern)) + 1]]

HistoriqueFiles ==
    { [name |-> "historique.csv",
       text |-> JoinLines(<<LineJan, LineNoOwner, LineMar, LineBlank, LineDec,
                            LineUpper, LineNoDate>>)],
      [name |-> "long.csv", text |-> JoinLines(LongLines(MaxLines))],
      [name |-> "vide.csv", text |-> <<>>] }

\* The file of the given name.
OwnerFile(n) == CHOOSE f \in OwnerFiles : f.name = n
HistoriqueFile(n) == CHOOSE f \in HistoriqueFiles : f.name = n

\* Values typed into the search box and picked in the two date inputs; a
\* date input holds "" or a valid yyyy-mm-dd string.
TextInputs == { <<>>, <<"A">>, <<"N">> }
StartDateInputs ==
    { <<>>,
      <<"2", "0", "2", "4", "-", "0", "1", "-", "0", "1">>,
      <<"2", "0", "2", "4", "-", "0", "2", "-", "0", "1">> }
EndDateInputs ==
    { <<>>,
      <<"1", "9", "0", "4", "-", "0", "3", "-", "0", "1">>,
      <<"2", "0", "2", "4", "-", "0", "1", "-", "3", "1">> }

\* Time zones of the browser, in minutes east of UTC.
TimeZones == {-300, 60}

(***************************************************************************)
(* handleHistoriqueUpload: the reader's onload callback.                   *)
(***************************************************************************)
\* arr.filter(keep) for the blank-line test of line 84.
NonBlankLines(lines) == SelectSeq(lines, LAMBDA line : Trim(line) # <<>>)

\* The month and year fields of a history row, lines 94-95.
MoisOf(dateParts) == OrZero(ParseInt(At(dateParts, 0)))
AnneeOf(dateParts) == OrZero(ParseInt(At(dateParts, 1)))

\* The row made of one line, lines 86-97.
ParseHistoriqueLine(line) ==
    LET values == Split(line, ";")
        dateStr == IF Truthy(At(values, 1)) THEN Trim(At(values, 1)) ELSE <<>>
        dateParts == Split(dateStr, "/")
    IN  [ Matricule |-> IF Truthy(At(values, 0)) THEN Trim(At(values, 0)) ELSE <<>>,
          DateMaree |-> dateStr,
          Mois |-> MoisOf(dateParts),
          Annee |-> AnneeOf(dateParts) ]

\* The rows made of a file's text, lines 83-97.
ParseHistorique(text) ==
    LET lines == NonBlankLines(Split(text, "\n"))
    IN  [i \in DOMAIN lines |-> ParseHistoriqueLine(lines[i])]

(***************************************************************************)
(* The merge effect.                                                       *)
(***************************************************************************)
\* obj[col]: undefined when the column is missing.
Get(obj, col) == IF col \in DOMAIN obj THEN obj[col] ELSE Undefined

\* Find as it would be if registrations were compared ignoring case.
RECURSIVE FindIgnoringCase(_, _)
FindIgnoringCase(owners, matricule) ==
    IF owners = <<>> THEN [found |-> FALSE]
    ELSE IF /\ Get(Head(owners), "Matricule") # Undefined
            /\ ToLowerCase(Get(Head(owners), "Matricule")) = ToLowerCase(matricule)
    THEN [found |-> TRUE, row |-> Head(owners)]
    ELSE FindIgnoringCase(Tail(owners), matricule)

\* Find as it would be if the owner rows were scanned from the right.
RECURSIVE FindLast(_, _)
FindLast(owners, matricule) ==
    IF owners = <<>> THEN [found |-> FALSE]
    ELSE IF Get(owners[Len(owners)], "Matricule") = matricule
    THEN [found |-> TRUE, row |-> owners[Len(owners)]]
    ELSE FindLast(SubSeq(owners, 1, Len(owners) - 1), matricule)

\* proprietairesData.find(p => p['Matricule'] === h['Matricule']), line 115:
\* the first match scanning from the left; found is FALSE for undefined.
RECURSIVE Find(_, _)
Find(owners, matricule) ==
    IF owners = <<>> THEN [found |-> FALSE]
    ELSE IF Get(Head(owners), "Matricule") = matricule
    THEN [found |-> TRUE, row |-> Head(owners)]
    ELSE Find(Tail(owners), matricule)

\* v || 'Inconnu'
OrInconnu(v) == IF Truthy(v) THEN v ELSE Inconnu

\* The forEach of lines 114-127: merged is the array built so far and
\* idCounter the counter of line 112.
RECURSIVE MergeLoop(_, _, _, _)
MergeLoop(owners, trips, merged, idCounter) ==
    IF trips = <<>> THEN merged
    ELSE LET h == Head(trips)
             match == Find(owners, h.Matricule)
             proprietaire == match.row
         IN  IF match.found
             THEN MergeLoop(owners, Tail(trips),
                            Append(merged,
                                   [ Barque |-> OrInconnu(Get(proprietaire, "Barque")),
                                     Matricule |-> h.Matricule,
                                     DateMaree |-> h.DateMaree,
                                     Proprietaire |-> OrInconnu(Get(proprietaire, "Proprietaire")),
                                     Mois |-> h.Mois,
                                     Annee |-> h.Annee,
                                     id |-> idCounter ]),
                            idCounter + 1)
             ELSE MergeLoop(owners, Tail(trips), merged, idCounter)

Merge(owners, trips) == MergeLoop(owners, trips, <<>>, 0)

\* MergeGuard as it would be if one non-empty collection were enough.
MergeGuardEither(owners, trips) == Len(owners) > 0 \/ Len(trips) > 0

\* The condition of line 110.
MergeGuard(owners, trips) == Len(owners) > 0 /\ Len(trips) > 0

\* The effect of lines 109-132, run after a render in which owners or trips
\* was replaced: the new values of mergedData, currentPage and mergeRan.
MergeEffect(owners, trips) ==
    IF MergeGuard(owners, trips)
    THEN /\ mergedData' = Merge(owners, trips)
         /\ currentPage' = 1
         /\ mergeRan' = TRUE
    ELSE /\ UNCHANGED <<mergedData, currentPage>>
         /\ mergeRan' = FALSE

(***************************************************************************)
(* Dates.                                                                  *)
(***************************************************************************)
\* Days from 1970-01-01 to the given day of the proleptic Gregorian calendar
\* (month 1..12).
DaysFromCivil(y, m, d) ==
    LET yy == IF m <= 2 THEN y - 1 ELSE y
        era == yy \div 400
        yoe == yy - era * 400
        mp == IF m > 2 THEN m - 3 ELSE m + 9
        doy == (153 * mp + 2) \div 5 + d - 1
        doe == yoe * 365 + yoe \div 4 - yoe \div 100 + doy
    IN  era * 146097 + doe - 719468

\* A point in time is <<day, millisecond of the day>> on the browser's local
\* clock; a time zone is a fixed offset from UTC.
Before(a, b) == a[1] < b[1] \/ (a[1] = b[1] /\ a[2] < b[2])
AtOrAfter(a, b) == ~Before(a, b)
AtOrBefore(a, b) == ~Before(b, a)

\* new Date(year, monthIndex, 1): local midnight; a year of 0..99 means
\* 1900 + year, and a month index outside 0..11 carries into the year.
NewDateLocal(year, monthIndex) ==
    LET full == IF year \in 0..99 THEN 1900 + year ELSE year
        y == full + (monthIndex \div 12)
        m == (monthIndex % 12) + 1
    IN  <<DaysFromCivil(y, m, 1), 0>>

\* The local day in which new Date("yyyy-mm-dd") falls: the string is read
\* as midnight UTC.
NewDateIso(str, zone) ==
    LET parts == Split(str, "-")
        utcDay == DaysFromCivil(ParseInt(parts[1]).val, ParseInt(parts[2]).val,
                                ParseInt(parts[3]).val)
    IN  (utcDay * 1440 + zone) \div 1440

\* new Date(str) followed by setHours(0, 0, 0, 0), lines 150 and 153.
StartOf(str, zone) == <<NewDateIso(str, zone), 0>>
\* new Date(str) followed by setHours(23, 59, 59, 999), lines 151 and 154.
EndOf(str, zone) == <<NewDateIso(str, zone), 86399999>>

(***************************************************************************)
(* filteredData, uniqueProprietaires, totalPages, currentData.             *)
(***************************************************************************)
\* The date test of lines 156-162.
InDateRange(item, from, to, zone) ==
    LET itemDate == NewDateLocal(item.Annee, item.Mois - 1)
    IN  IF Truthy(from) /\ Truthy(to)
        THEN AtOrAfter(itemDate, StartOf(from, zone)) /\ AtOrBefore(itemDate, EndOf(to, zone))
        ELSE IF Truthy(from) THEN AtOrAfter(itemDate, StartOf(from, zone))
        ELSE IF Truthy(to) THEN AtOrBefore(itemDate, EndOf(to, zone))
        ELSE TRUE

\* MatchesText as it would be without the two toLowerCase calls on the item.
MatchesTextCaseSensitive(item, text) ==
    \/ Includes(item.Matricule, text)
    \/ Includes(item.Barque, text)

\* The text test of lines 143-146.
MatchesText(item, text) ==
    LET lowerFilter == ToLowerCase(text)
    IN  \/ Includes(ToLowerCase(item.Matricule), lowerFilter)
        \/ Includes(ToLowerCase(item.Barque), lowerFilter)

\* The useMemo of lines 134-166: three filters applied one after the other.
Filter(data, owner, text, from, to, zone) ==
    LET byOwner == IF Truthy(owner) /\ owner # All
                   THEN SelectSeq(data, LAMBDA item : item.Proprietaire = owner)
                   ELSE data
        byText == IF Truthy(text)
                  THEN SelectSeq(byOwner, LAMBDA item : MatchesText(item, text))
                  ELSE byOwner
        byDate == IF Truthy(from) \/ Truthy(to)
                  THEN SelectSeq(byText, LAMBDA item : InDateRange(item, from, to, zone))
                  ELSE byText
    IN  byDate

filteredData == Filter(mergedData, selectedProprietaire, barqueFilter, startDate, endDate, tz)

\* The options of the owner select besides "all", lines 168-171.
uniqueProprietaires == {mergedData[i].Proprietaire : i \in DOMAIN mergedData}

itemsPerPage == 10

\* Math.ceil(n / d) for n >= 0 and d > 0.
Ceil(n, d) == IF n % d = 0 THEN n \div d ELSE n \div d + 1

\* Line 173.
TotalPages(count) == Ceil(count, itemsPerPage)
totalPages == TotalPages(Len(filteredData))

\* arr.slice(from, to) with 0 <= from: the elements of index from..to-1.
Slice(arr, from, to) == SubSeq(arr, from + 1, Min(to, Len(arr)))

\* PageSlice as it would be with the page taken as a zero-based index.
PageSliceZeroBased(data, page) ==
    Slice(data, page * itemsPerPage, (page + 1) * itemsPerPage)

\* Lines 174-177.
PageSlice(data, page) == Slice(data, (page - 1) * itemsPerPage, page * itemsPerPage)
currentData == PageSlice(filteredData, currentPage)

(***************************************************************************)
(* handleCopyData.                                                         *)
(***************************************************************************)
\* textToCopy, lines 189-194: the count of the header line and one block
\* (boat, registration, date) per item, in order.
TextToCopy(data) ==
    [ total |-> Len(data),
      items |-> [i \in DOMAIN data |->
                    [ Barque |-> data[i].Barque,
                      Matricule |-> data[i].Matricule,
                      DateMaree |-> data[i].DateMaree ]] ]

NoToast == [title |-> "", n |-> 0]
NothingCopied == [total |-> -1, items |-> <<>>]

(***************************************************************************)
(* The state after the first render.                                       *)
(***************************************************************************)
Init ==
    /\ proprietairesData = <<>>
    /\ historiqueData = <<>>
    /\ mergedData = <<>>
    /\ selectedProprietaire = All
    /\ barqueFilter = <<>>
    /\ startDate = <<>>
    /\ endDate = <<>>
    /\ currentPage = 1
    /\ fileName = [proprietaires |-> Null, historique |-> Null]
    /\ parsing = [proprietaires |-> <<>>, historique |-> <<>>]
    /\ toasts = NoToast
    /\ clipboard = NothingCopied
    /\ mergeRan = FALSE
    /\ tz \in TimeZones

filters == <<selectedProprietaire, barqueFilter, startDate, endDate>>

\* A step that raises no notice, writes nothing to the clipboard and runs no
\* effect.
Quiet == toasts' = NoToast /\ clipboard' = NothingCopied /\ mergeRan' = FALSE

\* No parse or read is in flight.
Idle == parsing.proprietaires = <<>> /\ parsing.historique = <<>>

\* seq without its i-th element.
Remove(seq, i) == SubSeq(seq, 1, i - 1) \o SubSeq(seq, i + 1, Len(seq))

(***************************************************************************)
(* Uploads.                                                                *)
(***************************************************************************)
\* FileUploader.handleFileChange / handleDrop of the "proprietaires" uploader
\* calling handleProprietairesUpload: Papa.parse starts and returns.
SelectProprietairesFile(f) ==
    /\ Len(parsing.proprietaires) < MaxInFlight
    /\ fileName' = [fileName EXCEPT !.proprietaires = f.name]
    /\ parsing' = [parsing EXCEPT !.proprietaires = Append(@, f.name)]
    /\ Quiet
    /\ UNCHANGED <<proprietairesData, historiqueData, mergedData, filters,
                   currentPage, tz>>

\* The complete callback of the i-th parse in flight, lines 68-76, and the
\* merge effect of the render it causes.
CompleteProprietaires(i) ==
    /\ i \in DOMAIN parsing.proprietaires
    /\ LET data == OwnerFile(parsing.proprietaires[i]).rows IN
       /\ proprietairesData' = data
       /\ toasts' = [title |-> "Fichier Proprietaires charge", n |-> Len(data)]
       /\ MergeEffect(data, historiqueData)
    /\ parsing' = [parsing EXCEPT !.proprietaires = Remove(@, i)]
    /\ clipboard' = NothingCopied
    /\ UNCHANGED <<historiqueData, filters, fileName, tz>>

\* FileUploader.handleFileChange / handleDrop of the "historique" uploader
\* calling handleHistoriqueUpload: readAsText starts and returns.
SelectHistoriqueFile(f) ==
    /\ Len(parsing.historique) < MaxInFlight
    /\ fileName' = [fileName EXCEPT !.historique = f.name]
    /\ parsing' = [parsing EXCEPT !.historique = Append(@, f.name)]
    /\ Quiet
    /\ UNCHANGED <<proprietairesData, historiqueData, mergedData, filters,
                   currentPage, tz>>

\* The onload callback of the i-th read in flight, lines 82-105, and the
\* merge effect of the render it causes.
CompleteHistorique(i) ==
    /\ i \in DOMAIN parsing.historique
    /\ LET data == ParseHistorique(HistoriqueFile(parsing.historique[i]).text) IN
       /\ historiqueData' = data
       /\ toasts' = [title |-> "Historique charge", n |-> Len(data)]
       /\ MergeEffect(proprietairesData, data)
    /\ parsing' = [parsing EXCEPT !.historique = Remove(@, i)]
    /\ clipboard' = NothingCopied
    /\ UNCHANGED <<proprietairesData, filters, fileName, tz>>

(***************************************************************************)
(* Filters and pages.                                                      *)
(***************************************************************************)
\* onValueChange of the owner select, line 293: one of the rendered options.
SetSelectedProprietaire(v) ==
    /\ v \in {All} \cup uniqueProprietaires
    /\ selectedProprietaire' = v
    /\ Quiet
    /\ UNCHANGED <<proprietairesData, historiqueData, mergedData, barqueFilter,
                   startDate, endDate, currentPage, fileName, parsing, tz>>

\* onChange of the search box, line 315.
SetBarqueFilter(v) ==
    /\ barqueFilter' = v
    /\ Quiet
    /\ UNCHANGED <<proprietairesData, historiqueData, mergedData,
                   selectedProprietaire, startDate, endDate, currentPage,
                   fileName, parsing, tz>>

\* onChange of the start date input, line 325.
SetStartDate(v) ==
    /\ startDate' = v
    /\ Quiet
    /\ UNCHANGED <<proprietairesData, historiqueData, mergedData,
                   selectedProprietaire, barqueFilter, endDate, currentPage,
                   fileName, parsing, tz>>

\* onChange of the end date input, line 334.
SetEndDate(v) ==
    /\ endDate' = v
    /\ Quiet
    /\ UNCHANGED <<proprietairesData, historiqueData, mergedData,
                   selectedProprietaire, barqueFilter, startDate, currentPage,
                   fileName, parsing, tz>>

\* FooterShown as it would be if the footer were rendered for an empty table.
FooterAlwaysShown == TRUE

\* The footer of lines 395-419 is rendered only for a non-empty filteredData.
FooterShown == Len(filteredData) > 0

\* Click on the previous-page button, lines 401-408.
PrevPage ==
    /\ FooterShown
    /\ currentPage # 1
    /\ currentPage' = Max(1, currentPage - 1)
    /\ Quiet
    /\ UNCHANGED <<proprietairesData, historiqueData, mergedData, filters,
                   fileName, parsing, tz>>

\* Click on the next-page button, lines 409-416.
NextPage ==
    /\ FooterShown
    /\ currentPage # totalPages
    /\ currentPage' = Min(totalPages, currentPage + 1)
    /\ Quiet
    /\ UNCHANGED <<proprietairesData, historiqueData, mergedData, filters,
                   fileName, parsing, tz>>

\* CopyData as it would be without the early return of lines 180-187.
CopyDataAlways(written) ==
    /\ clipboard' = TextToCopy(filteredData)
    /\ toasts' = IF written
                 THEN [title |-> "Copie dans le presse-papier", n |-> Len(filteredData)]
                 ELSE [title |-> "Erreur de copie", n |-> 0]
    /\ mergeRan' = FALSE
    /\ UNCHANGED <<proprietairesData, historiqueData, mergedData, filters,
                   currentPage, fileName, parsing, tz>>

\* handleCopyData, lines 179-209; written says whether the promise of
\* writeText is fulfilled or rejected.
CopyData(written) ==
    /\ IF Len(filteredData) = 0
       THEN /\ toasts' = [title |-> "Aucune donnee", n |-> 0]
            /\ clipboard' = NothingCopied
       ELSE /\ clipboard' = TextToCopy(filteredData)
            /\ toasts' = IF written
                         THEN [title |-> "Copie dans le presse-papier",
                               n |-> Len(filteredData)]
                         ELSE [title |-> "Erreur de copie", n |-> 0]
    /\ mergeRan' = FALSE
    /\ UNCHANGED <<proprietairesData, historiqueData, mergedData, filters,
                   currentPage, fileName, parsing, tz>>

\* The dashboard used with one upload at a time: a file is selected only
\* when no parse is in flight.
Next ==
    \/ \E f \in OwnerFiles : Idle /\ SelectProprietairesFile(f)
    \/ \E i \in DOMAIN parsing.proprietaires : CompleteProprietaires(i)
    \/ \E f \in HistoriqueFiles : Idle /\ SelectHistoriqueFile(f)
    \/ \E i \in DOMAIN parsing.historique : CompleteHistorique(i)
    \/ \E v \in {All} \cup uniqueProprietaires : SetSelectedProprietaire(v)
    \/ \E v \in TextInputs : SetBarqueFilter(v)
    \/ \E v \in StartDateInputs : SetStartDate(v)
    \/ \E v \in EndDateInputs : SetEndDate(v)
    \/ PrevPage
    \/ NextPage

Spec == Init /\ [][Next]_vars

\* The dashboard once an owner file and a history file have been loaded one
\* after the other from the first render: the table is searched, paged and
\* copied.
InitLoaded ==
    \E o \in OwnerFiles, h \in HistoriqueFiles :
        /\ proprietairesData = o.rows
        /\ historiqueData = ParseHistorique(h.text)
        /\ mergedData = IF MergeGuard(o.rows, ParseHistorique(h.text))
                        THEN Merge(o.rows, ParseHistorique(h.text))
                        ELSE <<>>
        /\ selectedProprietaire = All
        /\ barqueFilter = <<>>
        /\ startDate = <<>>
        /\ endDate = <<>>
        /\ currentPage = 1
        /\ fileName = [proprietaires |-> o.name, historique |-> h.name]
        /\ parsing = [proprietaires |-> <<>>, historique |-> <<>>]
        /\ toasts = NoToast
        /\ clipboard = NothingCopied
        /\ mergeRan = FALSE
        /\ tz \in TimeZones

NextView ==
    \/ \E v \in {All} \cup uniqueProprietaires : SetSelectedProprietaire(v)
    \/ \E v \in TextInputs : SetBarqueFilter(v)
    \/ \E v \in StartDateInputs : SetStartDate(v)
    \/ \E v \in EndDateInputs : SetEndDate(v)
    \/ PrevPage
    \/ NextPage
    \/ \E written \in BOOLEAN : CopyData(written)

SpecView == InitLoaded /\ [][NextView]_vars

\* Uploads that overlap: up to MaxInFlight parses of each source in flight,
\* completing in any order.
NextUploads ==
    \/ \E f \in OwnerFiles : SelectProprietairesFile(f)
    \/ \E i \in DOMAIN parsing.proprietaires : CompleteProprietaires(i)
    \/ \E f \in HistoriqueFiles : SelectHistoriqueFile(f)
    \/ \E i \in DOMAIN parsing.historique : CompleteHistorique(i)

SpecUploads == Init /\ [][NextUploads]_vars

(***************************************************************************)
(* Properties.                                                             *)
(***************************************************************************)
\* Some owner row has the given registration.
HasOwner(owners, matricule) ==
    \E i \in DOMAIN owners :
        "Matricule" \in DOMAIN owners[i] /\ owners[i].Matricule = matricule

\* The trips that have an owner, in the order of the trips.
MatchingTrips(owners, trips) ==
    SelectSeq(trips, LAMBDA t : HasOwner(owners, t.Matricule))

\* C1: when the owner collection and the trip collection are both non-empty,
\* the merged set is the subsequence of the trips whose Matricule is the
\* Matricule of some owner row: one merged record per such trip, with that
\* trip's Matricule and date, in the trips' order; a trip without owner gives
\* no record.
C1_MergeIsMatchingTrips ==
    MergeGuard(proprietairesData, historiqueData) =>
        LET matching == MatchingTrips(proprietairesData, historiqueData) IN
        /\ Len(mergedData) = Len(matching)
        /\ \A k \in DOMAIN mergedData :
              /\ mergedData[k].Matricule = matching[k].Matricule
              /\ mergedData[k].DateMaree = matching[k].DateMaree
              /\ HasOwner(proprietairesData, mergedData[k].Matricule)

\* C1 witness: a merge has just run that kept some trips and dropped others.
C1_Witness ==
    /\ mergeRan
    /\ Len(mergedData) > 0
    /\ Len(mergedData) < Len(historiqueData)

\* A date string of the form dd/mm/yyyy.
IsDayMonthYear(str) ==
    /\ Len(str) = 10
    /\ str[3] = "/" /\ str[6] = "/"
    /\ \A i \in {1, 2, 4, 5, 7, 8, 9, 10} : str[i] \in Digits

\* The mm and the yyyy of a dd/mm/yyyy string.
MonthOfDate(str) == ReadDigits(SubSeq(str, 4, 5), 0, FALSE).val
YearOfDate(str) == ReadDigits(SubSeq(str, 7, 10), 0, FALSE).val

\* C2: every trip row made of a line 'id;dd/mm/yyyy' has month mm and year
\* yyyy.
C2_MonthAndYearOfTripDate ==
    \A i \in DOMAIN historiqueData :
        IsDayMonthYear(historiqueData[i].DateMaree) =>
            /\ historiqueData[i].Mois = MonthOfDate(historiqueData[i].DateMaree)
            /\ historiqueData[i].Annee = YearOfDate(historiqueData[i].DateMaree)

\* C3: once the uploads have completed and the merge effect has run, the merged
\* set is the join of the current owner collection with the current trip
\* collection.
C3_MergedIsJoinOfCurrent ==
    Idle => mergedData = Merge(proprietairesData, historiqueData)

\* The record is one of the filtered records.
IsFiltered(r) == \E j \in DOMAIN filteredData : filteredData[j] = r

\* The claim's text predicate: the lower-cased text occurs in the lower-cased
\* Matricule or in the lower-cased boat name.
TextOccurs(r, text) ==
    \/ Includes(ToLowerCase(r.Matricule), ToLowerCase(text))
    \/ Includes(ToLowerCase(r.Barque), ToLowerCase(text))

\* All the active predicates together: owner, text and date range.
Keeps(r) ==
    /\ selectedProprietaire # All => r.Proprietaire = selectedProprietaire
    /\ barqueFilter # <<>> => TextOccurs(r, barqueFilter)
    /\ (startDate # <<>> \/ endDate # <<>>) => InDateRange(r, startDate, endDate, tz)

\* C4: the filtered set is the subsequence of the merged set, in the same
\* order, made of exactly the records that satisfy all active predicates: the
\* owner equals the owner filter unless it is "all"; a non-empty text filter
\* occurs, ignoring case, in the Matricule or in the boat name; and the
\* record's date is in the date range when a bound is set.
C4_FilterIsConjunction ==
    filteredData = SelectSeq(mergedData, Keeps)

\* C4 witness: the owner filter and the text filter are both active and keep
\* some records and drop others.
C4_Witness ==
    /\ selectedProprietaire # All
    /\ barqueFilter # <<>>
    /\ Len(filteredData) > 0
    /\ Len(filteredData) < Len(SelectSeq(mergedData,
                                  LAMBDA r : r.Proprietaire = selectedProprietaire))

\* The calendar day picked in a date input, in days from 1970-01-01.
DayPicked(str) ==
    LET parts == Split(str, "-")
    IN  DaysFromCivil(ReadDigits(parts[1], 0, FALSE).val,
                      ReadDigits(parts[2], 0, FALSE).val,
                      ReadDigits(parts[3], 0, FALSE).val)

\* The first day of the month of a dd/mm/yyyy trip date lies between the
\* start date at 00:00:00 and the end date at 23:59:59.999, a bound that is
\* not set being open.
TripMonthInRange(date, from, to) ==
    LET first == DaysFromCivil(YearOfDate(date), MonthOfDate(date), 1)
    IN  /\ from # <<>> => first >= DayPicked(from)
        /\ to # <<>> => first <= DayPicked(to)

\* C5: with the owner filter and the text filter off, the merged record of a
\* trip dated dd/mm/yyyy is kept if and only if the first day of month mm of
\* year yyyy lies within the date range.
C5_DateRangeKeepsTripMonth ==
    (selectedProprietaire = All /\ barqueFilter = <<>>) =>
        \A i \in DOMAIN mergedData :
            IsDayMonthYear(mergedData[i].DateMaree) =>
                (IsFiltered(mergedData[i]) <=>
                    TripMonthInRange(mergedData[i].DateMaree, startDate, endDate))

\* The slices of pages first..last one after the other.
RECURSIVE ConcatPages(_, _, _)
ConcatPages(data, first, last) ==
    IF first > last THEN <<>>
    ELSE PageSlice(data, first) \o ConcatPages(data, first + 1, last)

\* C6: the slices of pages 1..totalPages, one after the other, are the
\* filtered set, and every page but the last holds itemsPerPage records.
C6_PagesCoverFiltered ==
    /\ ConcatPages(filteredData, 1, totalPages) = filteredData
    /\ \A p \in 1..(totalPages - 1) : Len(PageSlice(filteredData, p)) = itemsPerPage

\* C6 witness: the second page is shown, and the last page is not full.
C6_Witness ==
    /\ totalPages >= 2
    /\ currentPage = 2
    /\ Len(filteredData) % itemsPerPage # 0

\* C7: totalPages is the least number of pages that hold the filtered records,
\* and is at least 1.
C7_TotalPagesAtLeastOne ==
    /\ totalPages >= 1
    /\ totalPages * itemsPerPage >= Len(filteredData)
    /\ Len(filteredData) > 0 => (totalPages - 1) * itemsPerPage < Len(filteredData)

CopyTitles == {"Aucune donnee", "Copie dans le presse-papier", "Erreur de copie"}

\* C8: a copy of an empty filtered set writes nothing to the clipboard and
\* raises the "nothing to copy" notice; a text is written only for a non-empty
\* filtered set, and then its header count is the number of filtered records
\* and it holds one block per filtered record, in order.
C8_CopyWritesOnlyNonEmpty ==
    [][ /\ clipboard' # NothingCopied =>
              /\ Len(filteredData) > 0
              /\ clipboard'.total = Len(filteredData)
              /\ Len(clipboard'.items) = Len(filteredData)
              /\ \A i \in DOMAIN filteredData :
                    /\ clipboard'.items[i].Matricule = filteredData[i].Matricule
                    /\ clipboard'.items[i].Barque = filteredData[i].Barque
                    /\ clipboard'.items[i].DateMaree = filteredData[i].DateMaree
        /\ (toasts'.title \in CopyTitles /\ Len(filteredData) = 0) =>
              /\ toasts'.title = "Aucune donnee"
              /\ clipboard' = NothingCopied
        /\ (toasts'.title \in CopyTitles /\ Len(filteredData) > 0) =>
              /\ toasts'.title # "Aucune donnee"
              /\ clipboard' # NothingCopied
      ]_vars

\* C8 witness: a copy was asked for while the filters matched none of the
\* merged records.
C8_Witness ==
    /\ toasts.title = "Aucune donnee"
    /\ clipboard = NothingCopied
    /\ Len(mergedData) > 0
    /\ Len(filteredData) = 0

\* C9: once no parse of a source is in flight, the source's collection holds
\* the content of the file uploaded last for it.
C9_LastUploadWins ==
    /\ (parsing.proprietaires = <<>> /\ fileName.proprietaires # Null) =>
          proprietairesData = OwnerFile(fileName.proprietaires).rows
    /\ (parsing.historique = <<>> /\ fileName.historique # Null) =>
          historiqueData = ParseHistorique(HistoriqueFile(fileName.historique).text)

\* A step in which a parse or a read completed and replaced its collection.
UploadCompleted ==
    \/ Len(parsing'.proprietaires) < Len(parsing.proprietaires)
    \/ Len(parsing'.historique) < Len(parsing.historique)

\* C10: the merge is recomputed exactly in the steps in which an upload
\* replaces a collection and both collections are then non-empty; a
\* recomputation sets currentPage to 1; no other step changes the merged set,
\* and a completed upload that leaves a collection empty changes neither the
\* merged set nor currentPage.
C10_MergeRunsOnUploadOfBoth ==
    [][ /\ mergeRan' <=> (UploadCompleted /\ Len(proprietairesData') > 0
                                          /\ Len(historiqueData') > 0)
        /\ mergeRan' => /\ currentPage' = 1
                        /\ mergedData' = Merge(proprietairesData', historiqueData')
        /\ ~mergeRan' => mergedData' = mergedData
        /\ (UploadCompleted /\ ~mergeRan') => currentPage' = currentPage
      ]_vars

\* C10 witness: the merge has just run over more than one page of records.
C10_Witness ==
    /\ mergeRan
    /\ currentPage = 1
    /\ Len(mergedData) > itemsPerPage

\* C11: currentPage is an integer greater than or equal to 1 in every state
\* reached by uploads, filter changes and clicks on the page buttons, which
\* are shown only for a non-empty filtered set.
C11_CurrentPageAtLeastOne ==
    currentPage \in Nat /\ currentPage >= 1

\* C11 witness: the next-page button has moved the table to its second page.
C11_Witness ==
    /\ FooterShown
    /\ currentPage = 2
    /\ currentPage = totalPages

\* C12: whenever the filtered set is non-empty, currentPage does not exceed
\* totalPages, so the page shown is not empty.
C12_PageWithinTotal ==
    Len(filteredData) > 0 =>
        /\ currentPage <= totalPages
        /\ Len(currentData) > 0

\* The rows of the owners that carry the given registration, in order.
OwnersOf(owners, matricule) ==
    SelectSeq(owners, LAMBDA p : "Matricule" \in DOMAIN p /\ p.Matricule = matricule)

\* The value of a column of an owner row, or 'Inconnu' when the column is
\* empty or absent.
NameOrInconnu(p, col) ==
    IF col \in DOMAIN p /\ p[col] # <<>> THEN p[col] ELSE Inconnu

\* C13: when the merge has just run, every merged record takes its boat name
\* and its owner name from the first owner row, in the owner collection's order, that carries its
\* Matricule, an empty or absent name of that row being 'Inconnu' even when a
\* later row with the same Matricule has one; and each trip with an owner
\* gives one merged record only.
C13_FirstOwnerWins ==
    mergeRan =>
        /\ Len(mergedData) = Len(MatchingTrips(proprietairesData, historiqueData))
        /\ \A k \in DOMAIN mergedData :
              LET same == OwnersOf(proprietairesData, mergedData[k].Matricule) IN
              /\ same # <<>>
              /\ mergedData[k].Barque = NameOrInconnu(same[1], "Barque")
              /\ mergedData[k].Proprietaire = NameOrInconnu(same[1], "Proprietaire")
        /\ \A j, k \in DOMAIN mergedData : j # k => mergedData[j].id # mergedData[k].id

\* C13 witness: the merge has just run, and a merged record has 'Inconnu' for
\* its owner name, missing from the first owner row of its Matricule, and for
\* its boat name, empty in that row, although the next row with the same
\* Matricule has both.
C13_Witness ==
    /\ mergeRan
    /\ \E k \in DOMAIN mergedData :
          LET same == OwnersOf(proprietairesData, mergedData[k].Matricule) IN
          /\ Len(same) >= 2
          /\ "Proprietaire" \notin DOMAIN same[1]
          /\ same[1].Barque = <<>>
          /\ NameOrInconnu(same[2], "Proprietaire") # Inconnu
          /\ NameOrInconnu(same[2], "Barque") # Inconnu
          /\ mergedData[k].Proprietaire = Inconnu
          /\ mergedData[k].Barque = Inconnu

====
